---- MODULE Spec2Model ----
(***************************************************************************)
(* MONTE CRISTO - The Archives.  A model of the vault page and the file    *)
(* viewer of App.jsx (src/unnamed/part_001): the file collection and the   *)
(* category filter of VaultPage, the FileViewer instance (Source/Run mode, *)
(* decoded text, object URLs, the runner documents it synthesizes) and the *)
(* rendering surfaces it mounts.                                           *)
(*                                                                         *)
(* React runs a handler, renders, commits the DOM and then flushes the     *)
(* passive effects (all cleanups first, then the effect bodies) before the *)
(* next event is handled.  The model keeps that order in pc: a handler     *)
(* step ("idle") commits the render, "cleanup" runs the cleanup of         *)
(* useObjectUrl, "effect" runs the effect bodies and the re-render that    *)
(* setUrl causes.  No event is handled while pc # "idle".                  *)
(***************************************************************************)
EXTENDS Integers, Sequences, FiniteSets, TLC

\* ------------------------------------------------------------------ bounds
\* the longest file collection (the collection only grows)
MaxFiles == 3
\* the number of object URLs (file payloads and runner documents) one run creates
MaxRefs == 4
\* the largest number of files one drop or one file-picker selection holds
MaxBatch == 2
\* the longest text, in statements, a runner document is executed with
MaxStatements == 3
\* the number of media files one player instance is handed, one after another
MaxMedia == 4
\* the number of hide timers of the feedback overlay that can be waiting at once
MaxTimers == 2
\* the number of audio players one session mounts
MaxEngines == 2

\* ------------------------------------------------------- the imported files
\* A File is known by its name and its declared media type.  A name is the
\* sequence of its '.'-separated segments (name.split('.')), a media type
\* the sequence of its '/'-separated parts; <<>> is the empty type.
FileUniverse == 1 .. 4

\* The names and the declared types the type detection is probed with: every
\* pair of a name and a type below is one more file, a probe.  The names have
\* upper-case, unlisted, media, markup, script and code extensions, two dots,
\* and no dot at all (a plain word, and words that are extensions).
ProbeNames ==
  << <<"photo", "JPG">>, <<"clip", "mov">>, <<"page", "htm">>, <<"app", "tsx">>,
     <<"notes", "txt">>, <<"clip", "js">>, <<"style", "css">>, <<"song", "mp3">>,
     <<"scan", "pdf">>, <<"data", "bin">>, <<"README">>, <<"js">>, <<"css">>,
     <<"html">>, <<"py">>, <<"archive", "tar", "gz">>, <<"query", "sql">>,
     <<"view", "jsx">> >>

ProbeTypes ==
  << <<>>, <<"video", "mp4">>, <<"audio", "mpeg">>, <<"image", "jpeg">>,
     <<"application", "pdf">>, <<"text", "plain">>, <<"application", "octet-stream">> >>

FirstProbe == Cardinality(FileUniverse) + 1
ProbeHandles == FirstProbe .. (FirstProbe + Len(ProbeNames) * Len(ProbeTypes) - 1)

\* every file the model knows: the ones the vault imports and the probes
Handles == FileUniverse \cup ProbeHandles

FileName(f) ==
  CASE f = 1 -> <<"app", "js">>
    [] f = 2 -> <<"photo", "PNG">>
    [] f = 3 -> <<"index", "html">>
    [] f = 4 -> <<"main", "py">>
    [] OTHER -> ProbeNames[((f - FirstProbe) % Len(ProbeNames)) + 1]

FileType(f) ==
  CASE f = 1 -> <<"text", "javascript">>
    [] f = 2 -> <<"image", "png">>
    [] f = 3 -> <<"text", "html">>
    [] f = 4 -> <<"text", "x-python">>
    [] OTHER -> ProbeTypes[((f - FirstProbe) \div Len(ProbeNames)) + 1]

\* the text FileReader.readAsText yields for a file: every file has its own
FileText(f) == f

NoFile == 0
NoText == 0
\* null, and the '' getRunnerSrc returns when there is nothing to run
NoUrl  == [kind |-> "none", file |-> 0, text |-> 0, dialect |-> "none", id |-> 0]

\* String.prototype.toLowerCase on the segments the files use
ToLowerCase(s) ==
  CASE s = "PNG" -> "png"
    [] s = "JS" -> "js"
    [] s = "HTML" -> "html"
    [] s = "JPG" -> "jpg"
    [] s = "README" -> "readme"
    [] OTHER -> s

\* file.name.split('.').pop().toLowerCase()
ExtOf(name) == ToLowerCase(name[Len(name)])

\* type.startsWith(prefix), for a prefix that is a whole major type
StartsWith(type, prefix) == Len(type) > 0 /\ type[1] = prefix

CategoryNames ==
  {"Images", "Videos", "GIFs", "Documents", "Audio", "Archives", "Executables", "Code"}

CATEGORIES(c) ==
  CASE c = "Images" -> {"jpg", "jpeg", "png", "webp", "heic", "bmp", "tiff", "svg", "raw", "ico"}
    [] c = "Videos" -> {"mp4", "mkv", "mov", "avi", "flv", "wmv", "webm", "m4v"}
    [] c = "GIFs" -> {"gif"}
    [] c = "Documents" -> {"pdf", "docx", "doc", "txt", "xlsx", "xls", "pptx", "ppt", "csv", "rtf", "odt"}
    [] c = "Audio" -> {"mp3", "wav", "aac", "flac", "ogg", "m4a"}
    [] c = "Archives" -> {"zip", "rar", "7z", "tar", "gz", "iso"}
    [] c = "Executables" -> {"exe", "msi", "bat", "apk"}
    [] c = "Code" -> {"py", "js", "html", "css", "cpp", "java", "sql", "json", "jsx", "tsx"}

\* -------------------------------------------- FileViewer: file type detection
IsVideoByExtension(f) ==
  StartsWith(FileType(f), "video") \/ ExtOf(FileName(f)) \in CATEGORIES("Videos")
IsVideo(f) == StartsWith(FileType(f), "video")
IsAudio(f) == StartsWith(FileType(f), "audio")
IsImage(f) == StartsWith(FileType(f), "image")
IsPdf(f)   == FileType(f) = <<"application", "pdf">>
IsHtml(f)  == ExtOf(FileName(f)) \in {"html", "htm"}
IsJsx(f)   == ExtOf(FileName(f)) \in {"jsx", "tsx"}
IsJs(f)    == ExtOf(FileName(f)) = "js"
IsCss(f)   == ExtOf(FileName(f)) = "css"
IsCode(f)  == ExtOf(FileName(f)) \in CATEGORIES("Code") \/ StartsWith(FileType(f), "text")
CanRunAnyCode(f) == IsHtml(f) \/ IsJsx(f) \/ IsJs(f) \/ IsCss(f) \/ IsCode(f)
CanRun(f)  == IsHtml(f) \/ IsJsx(f) \/ IsJs(f) \/ IsCss(f)
IsOtherCodeByExtension(f) == ExtOf(FileName(f)) \in CATEGORIES("Code") /\ ~CanRun(f)
IsOtherCode(f) == IsCode(f) /\ ~CanRun(f)

\* the condition of the FileReader effect
NeedsDecode(f) == IsCode(f) \/ IsHtml(f) \/ IsJsx(f)

VARIABLES
  page,            \* App: 'home' or 'vault'
  files,           \* VaultPage: the file collection, newest first
  activeCategory,  \* VaultPage: 'All' or a key of CATEGORIES
  viewingFile,     \* VaultPage: the file the viewer shows, NoFile when closed
  runCode,         \* FileViewer: Run mode (TRUE) or Source mode (FALSE)
  codeContent,     \* FileViewer: the decoded text, NoText until a decode lands
  url,             \* useObjectUrl: the url state handed to the surfaces
  effectUrl,       \* useObjectUrl: the objectUrl its pending cleanup will revoke
  runnerUrl,       \* FileViewer: the memoised result of getRunnerSrc()
  pending,         \* the FileReaders of the mounted viewer still reading: file -> count
  refs,            \* the browser's URL store: created, revoked, and the live URLs
  hostDoc,         \* the host document as the embedded code left it
  pc,              \* the position in React's render / cleanup / effect cycle
  lastEvent,       \* the event being handled: navigate with its direction, openFile
                   \* with the mode the viewer mounted before was left in (1 = Run)
  frame,           \* the document of a runner loaded in the execution iframe
  player           \* the mounted CustomAudioPlayer or CustomVideoPlayer

vars == <<page, files, activeCategory, viewingFile, runCode, codeContent, url,
          effectUrl, runnerUrl, pending, refs, hostDoc, pc, lastEvent, frame, player>>

vaultVars  == <<page, files, activeCategory>>
viewerVars == <<runCode, codeContent, url, effectUrl, runnerUrl, pending>>
refVars    == <<refs>>
\* what the viewer embeds: the runner document and the media player
embedVars  == <<frame, player>>
\* the vault page and its viewer
hostVars   == <<page, files, activeCategory, viewingFile, runCode, codeContent, url,
               effectUrl, runnerUrl, pending, refs, hostDoc, pc, lastEvent>>


\* ------------------------------------------------------------- object URLs
\* The URL store of the browser: how many URLs URL.createObjectURL has made,
\* how many calls of URL.revokeObjectURL released one, how many calls found
\* nothing to release (the URL was revoked before), and the URLs still live.
\* A URL is a record of what it locates and its serial number.
FileRef(f) == [kind |-> "file", file |-> f, text |-> NoText, dialect |-> "none"]
RunnerRef(f, text, dialect) == [kind |-> "runner", file |-> f, text |-> text, dialect |-> dialect]

NoRefs == [created |-> 0, revoked |-> 0, stale |-> 0, live |-> {}]

\* the URL the next URL.createObjectURL(rec) returns
NewUrl(rs, rec) ==
  [kind |-> rec.kind, file |-> rec.file, text |-> rec.text, dialect |-> rec.dialect,
   id |-> rs.created + 1]

\* URL.createObjectURL
CreateObjectURL(rs, rec) ==
  [rs EXCEPT !.created = @ + 1, !.live = @ \cup {NewUrl(rs, rec)}]

RevokeObjectURLKeepsLive(rs, u) == [rs EXCEPT !.revoked = @ + 1]

\* URL.revokeObjectURL(u)
RevokeObjectURL(rs, u) ==
  IF u \in rs.live
    THEN [rs EXCEPT !.revoked = @ + 1, !.live = @ \ {u}]
    ELSE [rs EXCEPT !.stale = @ + 1]

Live(u) == u \in refs.live
LiveFileRefs == {u \in refs.live : u.kind = "file"}
LiveRunnerRefs == {u \in refs.live : u.kind = "runner"}

\* ------------------------------------------ FileViewer: the runner document
\* getRunnerSrc(): the source of the execution iframe, and the URLs that
\* exist after the call.  A markup file runs from its own url; JS, CSS and
\* JSX get a new Blob URL whenever the decoded text is truthy.
GetRunnerSrc(f, u, cc, rs) ==
  IF IsHtml(f) THEN [src |-> u, refs |-> rs]
  ELSE IF IsJs(f) /\ cc # NoText
    THEN [src |-> NewUrl(rs, RunnerRef(f, cc, "JS")),
          refs |-> CreateObjectURL(rs, RunnerRef(f, cc, "JS"))]
  ELSE IF IsCss(f) /\ cc # NoText
    THEN [src |-> NewUrl(rs, RunnerRef(f, cc, "CSS")),
          refs |-> CreateObjectURL(rs, RunnerRef(f, cc, "CSS"))]
  ELSE IF IsJsx(f) /\ cc # NoText
    THEN [src |-> NewUrl(rs, RunnerRef(f, cc, "JSX")),
          refs |-> CreateObjectURL(rs, RunnerRef(f, cc, "JSX"))]
  ELSE [src |-> NoUrl, refs |-> rs]

\* the dependencies of useCallback(getRunnerSrc) and of useMemo(runnerUrl)
RunnerDeps(f, u, cc, rc) ==
  <<u, cc, IsHtml(f), IsJs(f), IsJsx(f), IsCss(f), FileName(f), rc>>

\* useMemo(() => getRunnerSrc(), [getRunnerSrc, runCode]) in the render of
\* (f, u, cc, rc): the memo is recomputed exactly when a dependency differs
\* from the ones of the render before (prevDeps), whatever the mode is
RunnerMemo(prevDeps, prevMemo, f, u, cc, rc, rs) ==
  IF RunnerDeps(f, u, cc, rc) = prevDeps
    THEN [src |-> prevMemo, refs |-> rs]
    ELSE GetRunnerSrc(f, u, cc, rs)

\* the dependencies of the committed render
CurrentDeps == RunnerDeps(viewingFile, url, codeContent, runCode)

\* ------------------------------------------------- FileViewer: what is shown
SandboxAttrWithTopNavigation ==
  {"allow-scripts", "allow-modals", "allow-popups", "allow-forms", "allow-same-origin",
   "allow-top-navigation"}

\* sandbox="..." of the code execution iframe
SandboxAttr ==
  {"allow-scripts", "allow-modals", "allow-popups", "allow-forms", "allow-same-origin"}

Placeholder == "Loading binary sequence..."

Surface(kind, src, sandbox, text) ==
  [kind |-> kind, src |-> src, sandbox |-> sandbox, text |-> text]

ExecMountedHidden(f, rc) == CanRun(f)

\* {canRun && runCode && (<iframe .../>)}: the iframe is in the tree only then
ExecMounted(f, rc) == CanRun(f) /\ rc

\* the content area of the committed render of FileViewer
Surfaces ==
  IF viewingFile = NoFile THEN {}
  ELSE IF url = NoUrl THEN {Surface("deciphering", NoUrl, {}, NoText)}
  ELSE
    (IF IsVideo(viewingFile) THEN {Surface("video", url, {}, NoText)} ELSE {})
    \cup (IF IsAudio(viewingFile) THEN {Surface("audio", url, {}, NoText)} ELSE {})
    \cup (IF IsImage(viewingFile) THEN {Surface("img", url, {}, NoText)} ELSE {})
    \cup (IF IsPdf(viewingFile) THEN {Surface("pdf", url, {}, NoText)} ELSE {})
    \cup (IF ExecMounted(viewingFile, runCode)
            THEN {Surface("exec", IF IsHtml(viewingFile) THEN url ELSE runnerUrl,
                          SandboxAttr, NoText)}
            ELSE {})
    \cup (IF IsOtherCode(viewingFile) /\ runCode
            THEN {Surface("terminal", NoUrl, {}, NoText)} ELSE {})
    \cup (IF (IsCode(viewingFile) /\ ~runCode) \/ (CanRun(viewingFile) /\ ~runCode)
            THEN {Surface("source", NoUrl, {}, codeContent)} ELSE {})
    \cup (IF ~IsVideo(viewingFile) /\ ~IsAudio(viewingFile) /\ ~IsImage(viewingFile)
             /\ ~IsPdf(viewingFile) /\ ~IsCode(viewingFile) /\ ~IsHtml(viewingFile)
             /\ ~IsJsx(viewingFile)
            THEN {Surface("unknown", NoUrl, {}, NoText)} ELSE {})

\* {codeContent || "Loading binary sequence..."}
ShownText(s) == IF s.text = NoText THEN Placeholder ELSE s.text

\* --------------------------------------------------- VaultPage: filteredFiles
InCategory(c, f) == ExtOf(FileName(f)) \in CATEGORIES(c)

FilteredFiles(fs, c) ==
  IF c = "All" THEN fs
  ELSE LET Keep(f) == InCategory(c, f) IN SelectSeq(fs, Keep)

\* Array.prototype.indexOf, 0-based, -1 when absent
IndexOf(s, x) ==
  IF \E i \in 1 .. Len(s) : s[i] = x
    THEN (CHOOSE i \in 1 .. Len(s) : s[i] = x /\ \A j \in 1 .. (i - 1) : s[j] # x) - 1
    ELSE -1

NextIndexNoLowerWrap(currentIndex, direction, n) ==
  LET nextIndex == currentIndex + direction IN
  IF nextIndex >= n THEN 0
  ELSE IF nextIndex < 0 THEN 0
  ELSE nextIndex

\* handleNavigate: the index after the wrap at both ends
NextIndex(currentIndex, direction, n) ==
  LET nextIndex == currentIndex + direction IN
  IF nextIndex >= n THEN 0
  ELSE IF nextIndex < 0 THEN n - 1
  ELSE nextIndex

InitialRunCodeKept == runCode

\* useState(false) of runCode, useState(null) of codeContent and url
InitialRunCode == FALSE
InitialCodeContent == NoText
InitialUrl == NoUrl

\* ------------------------------------------------ the sandboxed embedded code
\* what the text run inside the execution iframe may try
UserCodeBehaviours == {"compute", "throw", "writeParent", "navigateTop"}

\* The host document after the embedded code ran.  The iframe's document is a
\* blob: URL made by the host page, so it has the host's origin unless the
\* sandbox makes the origin opaque; with allow-scripts and allow-same-origin
\* its script reaches window.parent.document.  Navigating the top window needs
\* allow-top-navigation.  An error thrown by the code stays in the iframe.
HostAfter(doc, behaviour, sandbox) ==
  IF behaviour = "writeParent" /\ {"allow-scripts", "allow-same-origin"} \subseteq sandbox
    THEN "tampered"
  ELSE IF behaviour = "navigateTop" /\ {"allow-scripts", "allow-top-navigation"} \subseteq sandbox
    THEN "navigated"
  ELSE doc

\* ------------------------------------------- the runner documents, executed
\* The text a runner embeds is a sequence of statements.  What a statement is:
\*   "log"       a console.log call
\*   "throw"     throws when it is evaluated
\*   "later"     hands the browser a callback (a timer, a listener) that throws
\*   "bad"       tokens that do not parse
\*   "other"     any statement that binds no App and raises nothing
\*   "App"       function App() {...}, a declaration, hoisted
\*   "constApp"  const App = ..., bound when it is evaluated
\*   "exportApp" export default function App() {...}
JsStatements == {"log", "throw", "later", "bad"}
JsxStatements == {"App", "constApp", "exportApp", "other", "throw", "bad"}

Texts(statements) == UNION {[1 .. n -> statements] : n \in 1 .. MaxStatements}

\* a script whose text has a syntax error is not run at all; export is a
\* syntax error in a classic script
Parses(text) == \A i \in 1 .. Len(text) : text[i] \notin {"bad", "exportApp"}

\* codeContent.replace(/export\s+default\s+/g, '')
CleanCode(text) ==
  [i \in 1 .. Len(text) |-> IF text[i] = "exportApp" THEN "App" ELSE text[i]]

\* the bindings a script has before its first statement runs
Hoisted(text) == \E i \in 1 .. Len(text) : text[i] = "App"

EvalStatement(st, stmt) ==
  CASE stmt = "log" -> [st EXCEPT !.console = Append(@, "log")]
    [] stmt = "later" -> [st EXCEPT !.timers = @ + 1]
    [] stmt = "throw" -> [st EXCEPT !.thrown = TRUE]
    [] stmt = "constApp" -> [st EXCEPT !.app = TRUE]
    [] OTHER -> st

\* the statements of text from the i-th on, evaluated in order until one throws
RECURSIVE EvalStatements(_, _, _)
EvalStatements(text, i, st) ==
  IF i > Len(text) \/ st.thrown THEN st
  ELSE EvalStatements(text, i + 1, EvalStatement(st, text[i]))

EvalText(text) ==
  EvalStatements(text, 1, [console |-> <<>>, timers |-> 0, thrown |-> FALSE,
                           app |-> Hoisted(text)])

NoFrame ==
  [dialect |-> "none", text |-> <<>>, phase |-> "none", console |-> <<>>, timers |-> 0,
   uncaught |-> <<>>, blocks |-> <<>>, app |-> FALSE, mounted |-> FALSE]

\* the iframe navigated to a runner document, before its script runs
BlankFrame(dialect, text) == [NoFrame EXCEPT !.dialect = dialect, !.text = text, !.phase = "blank"]

JsRunnerUncaught(fr, st) ==
  [fr EXCEPT !.phase = "evaluated", !.console = st.console, !.timers = st.timers,
             !.uncaught = Append(@, "evaluation")]

\* jsRunner: try { ${codeContent} } catch (e) { log('Error: ' + e.message); }
JsRunnerCatch(fr, st) ==
  [fr EXCEPT !.phase = "evaluated", !.console = Append(st.console, "Error"),
             !.timers = st.timers]

\* the script element of jsRunner
JsRunnerScript(fr) ==
  IF ~Parses(fr.text)
    THEN [fr EXCEPT !.phase = "unparsed", !.uncaught = Append(@, "syntax")]
    ELSE LET st == EvalText(fr.text) IN
         IF st.thrown THEN JsRunnerCatch(fr, st)
         ELSE [fr EXCEPT !.phase = "evaluated", !.console = st.console, !.timers = st.timers]

JsxShouldMountAlways(app) == TRUE

\* if (typeof App !== 'undefined')
JsxShouldMount(app) == app

\* the try block after the user code: createRoot, the typeof test, root.render,
\* and the catch that appends the Mount Error block
JsxMount(fr, app) ==
  IF ~JsxShouldMount(app) THEN fr
  ELSE IF app THEN [fr EXCEPT !.mounted = TRUE]
  ELSE [fr EXCEPT !.blocks = Append(@, "Mount Error")]

\* the text/babel script element of jsxRunner: the transpiler runs it only if
\* it parses; window.onerror appends an Error block for what the code throws
JsxRunnerScript(fr) ==
  LET cleanCode == CleanCode(fr.text) IN
  IF ~Parses(cleanCode)
    THEN [fr EXCEPT !.phase = "unparsed", !.uncaught = Append(@, "syntax")]
    ELSE LET st == EvalText(cleanCode) IN
         IF st.thrown
           THEN [fr EXCEPT !.phase = "aborted", !.app = st.app,
                           !.uncaught = Append(@, "evaluation"),
                           !.blocks = Append(@, "Error")]
           ELSE JsxMount([fr EXCEPT !.phase = "evaluated", !.app = st.app], st.app)

\* ------------------------------------------------- the volume, a JS number
\* A JS number is an IEEE-754 double.  Every volume the player can hold is a
\* multiple of 2^-56 no larger than 1, so a number is kept as its sign and its
\* magnitude in units of 2^-56, split into two limbs: hi * Limb + lo.
Limb == 268435456

Number(neg, hi, lo) == [neg |-> neg, hi |-> hi, lo |-> lo]

\* the literals 0, 1, 0.1 and -0.1 (0.1 is the double nearest to one tenth,
\* 7205759403792794 * 2^-56)
Zero     == Number(FALSE, 0, 0)
One      == Number(FALSE, Limb, 0)
Tenth    == Number(FALSE, 26843545, 161061274)
NegTenth == Number(TRUE, 26843545, 161061274)

LessMagnitude(x, y) == x.hi < y.hi \/ (x.hi = y.hi /\ x.lo < y.lo)

\* x < y
NumberLess(x, y) ==
  IF x.neg # y.neg THEN x.neg /\ (x # [y EXCEPT !.neg = TRUE])
  ELSE IF x.neg THEN LessMagnitude(y, x) ELSE LessMagnitude(x, y)

\* the exact sum and difference of two magnitudes
AddMagnitude(x, y) ==
  LET lo == x.lo + y.lo IN [hi |-> x.hi + y.hi + (lo \div Limb), lo |-> lo % Limb]

SubMagnitude(x, y) ==
  LET lo == x.lo - y.lo IN
    IF lo < 0 THEN [hi |-> x.hi - y.hi - 1, lo |-> lo + Limb]
              ELSE [hi |-> x.hi - y.hi, lo |-> lo]

\* the spacing of the doubles around a magnitude, in units of 2^-56: a double
\* has 53 significant bits
Ulp(m) ==
  IF m.hi < 33554432 THEN 1
  ELSE IF m.hi < 67108864 THEN 2
  ELSE IF m.hi < 134217728 THEN 4
  ELSE IF m.hi < Limb THEN 8
  ELSE 16

\* round to the nearest double, ties to the even significand
RoundToDouble(m) ==
  LET q    == Ulp(m)
      r    == m.lo % q
      down == m.lo - r
      up   == (2 * r > q) \/ (2 * r = q /\ (down \div q) % 2 = 1)
      lo   == IF up THEN down + q ELSE down
  IN  IF lo = Limb THEN [hi |-> m.hi + 1, lo |-> 0] ELSE [hi |-> m.hi, lo |-> lo]

\* x + y
NumberAdd(x, y) ==
  IF x.neg = y.neg
    THEN LET m == RoundToDouble(AddMagnitude(x, y)) IN Number(x.neg, m.hi, m.lo)
  ELSE IF LessMagnitude(x, y)
    THEN LET m == RoundToDouble(SubMagnitude(y, x)) IN Number(y.neg, m.hi, m.lo)
  ELSE LET m == RoundToDouble(SubMagnitude(x, y)) IN
         Number(x.neg /\ (m.hi # 0 \/ m.lo # 0), m.hi, m.lo)

MathMin(x, y) == IF NumberLess(y, x) THEN y ELSE x
MathMax(x, y) == IF NumberLess(x, y) THEN y ELSE x

\* adjustVolume: const newVol = Math.max(0, Math.min(1, volume + delta))
NewVol(volume, delta) == MathMax(Zero, MathMin(One, NumberAdd(volume, delta)))

\* ------------------------------------------------------- the media players
\* CustomAudioPlayer / CustomVideoPlayer: the isPlaying, isMuted, volume and
\* feedbackState state, the media element (its source and its paused
\* attribute; its muted and volume attributes are set with isMuted and
\* volume), the promise of the play() the auto-play effect issued last, the
\* hide timers showFeedback has started and that have not fired (timers), the
\* redraw callbacks of the visualizer the browser holds (raf), the
\* AudioContexts constructed since the page loaded (engines), and the volume
\* or mute key handled last with the isMuted it found (input)
NoFeedback == [visible |-> FALSE, type |-> "mute"]

NoInput == [key |-> "none", muted |-> FALSE]

NoPlayer == [kind |-> "none", src |-> 0, isPlaying |-> FALSE, isMuted |-> FALSE,
             paused |-> TRUE, autoplay |-> "none", volume |-> One,
             feedback |-> NoFeedback, timers |-> 0, raf |-> 0, engines |-> 0,
             input |-> NoInput]

\* what the player renders besides the media element and the controls
PlayerView(p) ==
  {"media", "controls", "volumeFeedback"}
    \cup (IF p.kind = "video" /\ ~p.isPlaying THEN {"playOverlay"} ELSE {})
    \cup (IF p.kind = "audio" THEN {"visualizer", "musicIcon"} ELSE {})
    \cup (IF p.kind = "audio" /\ p.isPlaying THEN {"pulse"} ELSE {})

\* ------------------------------------------------------------------- events
Event(op, arg) == [op |-> op, arg |-> arg]

\* no read in flight, for the files the vault can hold
NoReaders == [f \in FileUniverse \cup {files[i] : i \in 1 .. Len(files)} |-> 0]

UseObjectUrlCleanupSkipped(rs, objectUrl) == rs

\* the cleanup of the useObjectUrl effect: () => URL.revokeObjectURL(objectUrl)
UseObjectUrlCleanup(rs, objectUrl) == RevokeObjectURL(rs, objectUrl)

Init ==
  /\ page = "home"
  /\ files = <<>>
  /\ activeCategory = "All"
  /\ viewingFile = NoFile
  /\ runCode = FALSE
  /\ codeContent = NoText
  /\ url = NoUrl
  /\ effectUrl = NoUrl
  /\ runnerUrl = NoUrl
  /\ pending = NoReaders
  /\ refs = NoRefs
  /\ hostDoc = "intact"
  /\ pc = "idle"
  /\ lastEvent = Event("other", 0)
  /\ frame = NoFrame
  /\ player = NoPlayer

\* App: onEnter; VaultPage mounts with its useState initial values
EnterVault ==
  /\ pc = "idle" /\ page = "home"
  /\ page' = "vault"
  /\ files' = <<>>
  /\ activeCategory' = "All"
  /\ viewingFile' = NoFile
  /\ lastEvent' = Event("other", 0)
  /\ UNCHANGED <<viewerVars, refVars, hostDoc, embedVars, pc>>

\* the viewer leaves the tree: its hook state is dropped, its readers can no
\* longer set anything, and the cleanup of useObjectUrl is due.  runCode keeps
\* the mode of the viewer mounted last until the next mount initialises it
UnmountViewer ==
  /\ viewingFile' = NoFile
  /\ pending' = NoReaders
  /\ codeContent' = NoText
  /\ url' = NoUrl
  /\ runnerUrl' = NoUrl
  /\ pc' = "cleanup"
  /\ UNCHANGED <<runCode, effectUrl, refVars>>

\* App: onBack; VaultPage unmounts and its state is dropped, and the open
\* viewer with it
ExitVault ==
  /\ pc = "idle" /\ page = "vault"
  /\ page' = "home"
  /\ IF viewingFile # NoFile
       THEN UnmountViewer
       ELSE UNCHANGED <<viewingFile, viewerVars, refVars, pc>>
  /\ files' = <<>>
  /\ activeCategory' = "All"
  /\ lastEvent' = Event("other", 0)
  /\ UNCHANGED <<hostDoc, embedVars>>

\* the batches of files one drop or one selection can hold
Batches ==
  {b \in UNION {[1 .. n -> FileUniverse] : n \in 1 .. MaxBatch} :
     /\ \A i, j \in 1 .. Len(b) : i # j => b[i] # b[j]
     /\ \A i \in 1 .. Len(b) : \A k \in 1 .. Len(files) : files[k] # b[i]
     /\ Len(files) + Len(b) <= MaxFiles}

\* handleDrop: setFiles(prev => [...droppedFiles, ...prev])
HandleDrop(droppedFiles) ==
  /\ pc = "idle" /\ page = "vault"
  /\ files' = droppedFiles \o files
  /\ lastEvent' = Event("other", 0)
  /\ UNCHANGED <<page, activeCategory, viewingFile, viewerVars, refVars, hostDoc, embedVars, pc>>

\* handleUpload: setFiles(prev => [...uploadedFiles, ...prev])
HandleUpload(uploadedFiles) ==
  /\ pc = "idle" /\ page = "vault"
  /\ files' = uploadedFiles \o files
  /\ lastEvent' = Event("other", 0)
  /\ UNCHANGED <<page, activeCategory, viewingFile, viewerVars, refVars, hostDoc, embedVars, pc>>

SwitchCategoryKeepsViewer(category) ==
  /\ pc = "idle" /\ page = "vault"
  /\ activeCategory' = category
  /\ lastEvent' = Event("other", 0)
  /\ UNCHANGED <<page, files, hostDoc, embedVars, viewingFile, viewerVars, refVars, pc>>

\* switchCategory: setActiveCategory(category); setViewingFile(null)
SwitchCategory(category) ==
  /\ pc = "idle" /\ page = "vault"
  /\ activeCategory' = category
  /\ IF viewingFile # NoFile
       THEN UnmountViewer
       ELSE UNCHANGED <<viewingFile, viewerVars, refVars, pc>>
  /\ lastEvent' = Event("other", 0)
  /\ UNCHANGED <<page, files, hostDoc, embedVars>>

\* a click on a grid cell: setViewingFile(file).  The grid is covered by the
\* viewer overlay while a file is open, so this mounts a new FileViewer, whose
\* first render has the useState initial values
OpenFile(f) ==
  /\ pc = "idle" /\ page = "vault" /\ viewingFile = NoFile
  /\ \E i \in 1 .. Len(FilteredFiles(files, activeCategory)) :
       FilteredFiles(files, activeCategory)[i] = f
  /\ LET r == GetRunnerSrc(f, InitialUrl, InitialCodeContent, refs) IN
       /\ r.refs.created + 1 <= MaxRefs
       /\ viewingFile' = f
       /\ runCode' = InitialRunCode
       /\ codeContent' = InitialCodeContent
       /\ url' = InitialUrl
       /\ runnerUrl' = r.src
       /\ refs' = r.refs
  /\ effectUrl' = NoUrl
  /\ pending' = NoReaders
  /\ pc' = "effect"
  /\ lastEvent' = Event("openFile", IF runCode THEN 1 ELSE 0)
  /\ UNCHANGED <<vaultVars, hostDoc, embedVars>>

\* onClose: setViewingFile(null)
CloseFile ==
  /\ pc = "idle" /\ page = "vault" /\ viewingFile # NoFile
  /\ UnmountViewer
  /\ lastEvent' = Event("other", 0)
  /\ UNCHANGED <<vaultVars, hostDoc, embedVars>>

\* handleNavigate(direction), from the arrow keys or the NAV chevrons, and the
\* render of FileViewer with the new file prop: the hook state is kept
HandleNavigate(direction) ==
  /\ pc = "idle" /\ page = "vault" /\ viewingFile # NoFile
  /\ lastEvent' = Event("navigate", direction)
  /\ LET filteredFiles == FilteredFiles(files, activeCategory)
         currentIndex == IndexOf(filteredFiles, viewingFile)
     IN IF Len(filteredFiles) <= 1 \/ currentIndex = -1
          THEN UNCHANGED <<viewingFile, viewerVars, refVars, pc>>
          ELSE LET target == filteredFiles[NextIndex(currentIndex, direction, Len(filteredFiles)) + 1]
                   r == RunnerMemo(CurrentDeps, runnerUrl, target, url, codeContent, runCode, refs)
                   r2 == RunnerMemo(RunnerDeps(target, url, codeContent, runCode), r.src, target,
                                    NewUrl(r.refs, FileRef(target)), codeContent, runCode,
                                    CreateObjectURL(r.refs, FileRef(target)))
               IN /\ r2.refs.created <= MaxRefs
                  /\ viewingFile' = target
                  /\ runnerUrl' = r.src
                  /\ refs' = r.refs
                             /\ pc' = "cleanup"
                  /\ UNCHANGED <<runCode, codeContent, url, effectUrl, pending>>
  /\ UNCHANGED <<vaultVars, hostDoc, embedVars>>

\* passive effects, cleanups first: the cleanup of the last useObjectUrl effect
RunCleanup ==
  /\ pc = "cleanup"
  /\ refs' = UseObjectUrlCleanup(refs, effectUrl)
  /\ effectUrl' = NoUrl
  /\ pc' = IF viewingFile = NoFile THEN "idle" ELSE "effect"
  /\ lastEvent' = Event("other", 0)
  /\ UNCHANGED <<vaultVars, viewingFile, runCode, codeContent, url, runnerUrl, pending,
                 hostDoc, embedVars>>

\* passive effects: useObjectUrl creates the URL and sets it, the FileReader
\* effect starts a read, and the viewer renders again with the new url
RunEffects ==
  /\ pc = "effect"
  /\ LET rs == CreateObjectURL(refs, FileRef(viewingFile))
         objectUrl == NewUrl(refs, FileRef(viewingFile))
         r == RunnerMemo(CurrentDeps, runnerUrl, viewingFile, objectUrl, codeContent, runCode, rs)
     IN /\ url' = objectUrl
        /\ effectUrl' = objectUrl
        /\ runnerUrl' = r.src
        /\ refs' = r.refs
   /\ pending' = IF NeedsDecode(viewingFile)
                  THEN [pending EXCEPT ![viewingFile] = @ + 1]
                  ELSE pending
  /\ pc' = "idle"
  /\ lastEvent' = Event("other", 0)
  /\ UNCHANGED <<vaultVars, viewingFile, runCode, codeContent, hostDoc, embedVars>>

\* the Run Code / View Source button: setRunCode(!runCode)
ToggleRun ==
  /\ pc = "idle" /\ page = "vault" /\ viewingFile # NoFile /\ url # NoUrl
  /\ IsCode(viewingFile) \/ IsHtml(viewingFile)
  /\ LET r == RunnerMemo(CurrentDeps, runnerUrl, viewingFile, url, codeContent, ~runCode, refs) IN
       /\ r.refs.created <= MaxRefs
       /\ runCode' = ~runCode
       /\ runnerUrl' = r.src
       /\ refs' = r.refs
  /\ lastEvent' = Event("other", 0)
  /\ UNCHANGED <<vaultVars, viewingFile, codeContent, url, effectUrl, pending, hostDoc, embedVars, pc>>

\* reader.onload of a read of file f: setCodeContent(e.target.result)
DecodeComplete(f) ==
  /\ pc = "idle" /\ viewingFile # NoFile /\ pending[f] > 0
  /\ LET r == RunnerMemo(CurrentDeps, runnerUrl, viewingFile, url, FileText(f), runCode, refs) IN
       /\ r.refs.created <= MaxRefs
       /\ codeContent' = FileText(f)
       /\ runnerUrl' = r.src
       /\ refs' = r.refs
  /\ pending' = [pending EXCEPT ![f] = @ - 1]
  /\ lastEvent' = Event("other", 0)
  /\ UNCHANGED <<vaultVars, viewingFile, runCode, url, effectUrl, hostDoc, embedVars, pc>>

\* a read of file f fails: the reader has no onerror, nothing is set
DecodeFail(f) ==
  /\ pc = "idle" /\ viewingFile # NoFile /\ pending[f] > 0
  /\ pending' = [pending EXCEPT ![f] = @ - 1]
  /\ lastEvent' = Event("other", 0)
  /\ UNCHANGED <<vaultVars, viewingFile, runCode, codeContent, url, effectUrl, runnerUrl,
                 refVars, hostDoc, embedVars, pc>>

\* the text embedded in the mounted execution iframe runs
UserCodeRuns(behaviour) ==
  /\ pc = "idle"
  /\ \E s \in Surfaces :
       /\ s.kind = "exec" /\ s.src # NoUrl /\ "allow-scripts" \in s.sandbox
       /\ hostDoc' = HostAfter(hostDoc, behaviour, s.sandbox)
  /\ lastEvent' = Event("other", 0)
  /\ UNCHANGED <<vaultVars, viewingFile, viewerVars, refVars, embedVars, pc>>

\* the filter buttons pressed: All, the two categories that hold files of
\* FileUniverse, and one that holds none (the other five filter like it)
SwitchTargets == {"All", "Code", "Images", "Audio"}

Next ==
  \/ EnterVault
  \/ ExitVault
  \/ \E b \in Batches : HandleDrop(b)
  \/ \E b \in Batches : HandleUpload(b)
  \/ \E c \in SwitchTargets : SwitchCategory(c)
  \/ \E f \in FileUniverse : OpenFile(f)
  \/ CloseFile
  \/ \E d \in {1, -1} : HandleNavigate(d)
  \/ RunCleanup
  \/ RunEffects
  \/ ToggleRun
  \/ \E f \in FileUniverse : DecodeComplete(f)
  \/ \E f \in FileUniverse : DecodeFail(f)

\* the host application alone: what the embedded code does is left out
Spec == Init /\ [][Next]_vars

\* the host application and the code it embeds in the execution iframe
NextSandbox ==
  \/ Next
  \/ \E b \in UserCodeBehaviours : UserCodeRuns(b)

SpecSandbox == Init /\ [][NextSandbox]_vars

\* ---------------------------------------------- the type detection, probed
\* the vault holding one probe next to app.js, so that the viewer reaches the
\* probe both in the mode it mounts in and in the mode left on app.js
InitClassify ==
  /\ page = "vault"
  /\ \E h \in ProbeHandles : files = <<h, 1>>
  /\ activeCategory = "All"
  /\ viewingFile = NoFile
  /\ runCode = FALSE
  /\ codeContent = NoText
  /\ url = NoUrl
  /\ effectUrl = NoUrl
  /\ runnerUrl = NoUrl
  /\ pending = NoReaders
  /\ refs = NoRefs
  /\ hostDoc = "intact"
  /\ pc = "idle"
  /\ lastEvent = Event("other", 0)
  /\ frame = NoFrame
  /\ player = NoPlayer

NextClassify ==
  \/ \E f \in Handles : OpenFile(f)
  \/ CloseFile
  \/ \E d \in {1, -1} : HandleNavigate(d)
  \/ RunCleanup
  \/ RunEffects
  \/ ToggleRun
  \/ \E f \in DOMAIN pending : DecodeComplete(f)
  \/ \E f \in DOMAIN pending : DecodeFail(f)

SpecClassify == InitClassify /\ [][NextClassify]_vars

\* ------------------------------------------------ a runner document, loaded
\* the iframe loads the document: its script element runs to its end
FrameLoad ==
  /\ frame.phase = "blank"
  /\ frame' = IF frame.dialect = "JS" THEN JsRunnerScript(frame) ELSE JsxRunnerScript(frame)
  /\ UNCHANGED <<hostVars, player>>

\* a callback the text handed to the browser runs and throws: no try block of
\* the script is on the stack; window.onerror, where the runner set one,
\* appends its block
FrameCallback ==
  /\ frame.phase = "evaluated" /\ frame.timers > 0
  /\ frame' = [frame EXCEPT !.timers = @ - 1,
                            !.uncaught = Append(@, "callback"),
                            !.blocks = IF frame.dialect = "JSX" THEN Append(@, "Error") ELSE @]
  /\ UNCHANGED <<hostVars, player>>

InitRunner ==
  /\ page = "home"
  /\ files = <<>>
  /\ activeCategory = "All"
  /\ viewingFile = NoFile
  /\ runCode = FALSE
  /\ codeContent = NoText
  /\ url = NoUrl
  /\ effectUrl = NoUrl
  /\ runnerUrl = NoUrl
  /\ pending = NoReaders
  /\ refs = NoRefs
  /\ hostDoc = "intact"
  /\ pc = "idle"
  /\ lastEvent = Event("other", 0)
  /\ player = NoPlayer
  /\ \/ \E text \in Texts(JsStatements) : frame = BlankFrame("JS", text)
     \/ \E text \in Texts(JsxStatements) : frame = BlankFrame("JSX", text)

NextRunner ==
  \/ FrameLoad
  \/ FrameCallback

SpecRunner == InitRunner /\ [][NextRunner]_vars

\* ------------------------------------------------------- a media player
\* the promise of a play() the auto-play effect issues: the platform settles
\* on the call whether playback may start; a denied call is rejected at once,
\* before any other event is handled
PlayPromise(allowed) == IF allowed THEN "pending" ELSE "denied"

\* drawVisualizer(): renderFrame() asks for the next frame and keeps its id in
\* animationRef; every frame asks for the one after it
DrawVisualizer(p) == [p EXCEPT !.raf = @ + 1]

\* if (animationRef.current) cancelAnimationFrame(animationRef.current): the
\* callback asked for last is dropped
CancelAnimation(p) == [p EXCEPT !.raf = IF @ > 0 THEN @ - 1 ELSE 0]

\* the cleanup of the audio-context effect of the audio player
AudioContextCleanup(p) == IF p.kind = "audio" THEN CancelAnimation(p) ELSE p

\* the effect on [isPlaying, url, drawVisualizer] of the audio player
PlayStateEffect(p) ==
  IF p.kind # "audio" THEN p
  ELSE IF p.isPlaying THEN DrawVisualizer(p) ELSE CancelAnimation(p)

\* the effects of the render that follows a change of hook state from p to q
Rendered(p, q) == IF q.isPlaying # p.isPlaying THEN PlayStateEffect(q) ELSE q

\* showFeedback: setFeedbackState({ visible: true, type }) and a setTimeout
\* of 800 ms that nothing clears
ShowFeedback(p, type) ==
  [p EXCEPT !.feedback = [visible |-> TRUE, type |-> type], !.timers = @ + 1]

MutedAfterVolumeKept(newVol, isMuted) == isMuted

\* if (newVol > 0 && isMuted) { muted = false; setIsMuted(false) }
MutedAfterVolume(newVol, isMuted) ==
  IF NumberLess(Zero, newVol) /\ isMuted THEN FALSE ELSE isMuted

\* FileViewer renders the player once url is set: the player mounts with its
\* useState initial values, its auto-play effect calls play() and the audio
\* player constructs its AudioContext and analyser; the play-state effect
\* finds isPlaying false and animationRef empty
PlayerMount(kind, allowed) ==
  /\ player.kind = "none"
  /\ kind = "audio" => player.engines < MaxEngines
  /\ player' = [NoPlayer EXCEPT !.kind = kind, !.src = 1,
                                !.autoplay = PlayPromise(allowed),
                                !.raf = player.raf,
                                !.engines = IF kind = "audio" THEN player.engines + 1
                                                              ELSE player.engines]
  /\ UNCHANGED <<hostVars, frame>>

\* the url prop changes (the viewer went to another file of the same kind):
\* the element loads the new source, which pauses it; the cleanup of the
\* audio-context effect cancels the redraw, the auto-play effect calls play()
\* again and the play-state effect runs with the isPlaying that was kept
PlayerUrlChange(allowed) ==
  /\ player.kind # "none" /\ player.autoplay # "denied" /\ player.src < MaxMedia
  /\ player' = PlayStateEffect(AudioContextCleanup(
                 [player EXCEPT !.src = @ + 1, !.paused = TRUE,
                                !.autoplay = PlayPromise(allowed),
                                !.input = NoInput]))
  /\ UNCHANGED <<hostVars, frame>>

\* .then(() => setIsPlaying(true))
AutoplayResolve ==
  /\ player.autoplay = "pending"
  /\ player' = Rendered(player,
                 [player EXCEPT !.paused = FALSE, !.isPlaying = TRUE,
                                !.autoplay = "resolved", !.input = NoInput])
  /\ UNCHANGED <<hostVars, frame>>

\* .catch(e => console.warn("Auto-play blocked", e))
AutoplayReject ==
  /\ player.autoplay = "denied"
  /\ player' = [player EXCEPT !.autoplay = "rejected", !.input = NoInput]
  /\ UNCHANGED <<hostVars, frame>>

\* togglePlay: pause() or play() by isPlaying, then setIsPlaying(!isPlaying);
\* pause() aborts a play() promise still pending, whose catch only warns
TogglePlay ==
  /\ player.kind # "none" /\ player.autoplay # "denied"
  /\ player' = Rendered(player,
                 [player EXCEPT !.paused = player.isPlaying,
                                !.isPlaying = ~player.isPlaying,
                                !.autoplay = IF @ = "pending" /\ ~player.isPlaying
                                               THEN "pending" ELSE "none",
                                !.input = NoInput])
  /\ UNCHANGED <<hostVars, frame>>

\* toggleMute: the element's muted attribute and isMuted flip together, then
\* showFeedback('mute'); the play() promise is not touched
ToggleMute ==
  /\ player.kind # "none" /\ player.autoplay # "denied"
  /\ player.timers < MaxTimers
  /\ player' = ShowFeedback(
                 [player EXCEPT !.isMuted = ~player.isMuted,
                                !.autoplay = IF @ = "pending" THEN @ ELSE "none",
                                !.input = [key |-> "mute", muted |-> player.isMuted]],
                 "mute")
  /\ UNCHANGED <<hostVars, frame>>

\* adjustVolume(delta), from ArrowUp (0.1) and ArrowDown (-0.1)
AdjustVolume(delta) ==
  /\ player.kind # "none" /\ player.autoplay # "denied"
  /\ player.timers < MaxTimers
  /\ LET newVol == NewVol(player.volume, delta) IN
       player' = ShowFeedback(
                   [player EXCEPT !.volume = newVol,
                                  !.isMuted = MutedAfterVolume(newVol, player.isMuted),
                                  !.autoplay = IF @ = "pending" THEN @ ELSE "none",
                                  !.input = [key |-> IF delta.neg THEN "down" ELSE "up",
                                             muted |-> player.isMuted]],
                   "volume")
  /\ UNCHANGED <<hostVars, frame>>

\* a hide timer fires: setFeedbackState(prev => ({ ...prev, visible: false }))
FeedbackTimeout ==
  /\ player.kind # "none" /\ player.autoplay # "denied"
  /\ player.timers > 0
  /\ player' = [player EXCEPT !.feedback.visible = FALSE, !.timers = @ - 1,
                              !.input = NoInput]
  /\ UNCHANGED <<hostVars, frame>>

\* onEnded: setIsPlaying(false)
MediaEnded ==
  /\ player.kind # "none" /\ ~player.paused /\ player.autoplay \notin {"pending", "denied"}
  /\ player' = Rendered(player,
                 [player EXCEPT !.paused = TRUE, !.isPlaying = FALSE,
                                !.autoplay = "none", !.input = NoInput])
  /\ UNCHANGED <<hostVars, frame>>

\* the viewer closes or goes to a file of another kind: the cleanup of the
\* audio-context effect cancels the redraw; the AudioContext is not closed and
\* the timers left fire on a component that is gone
PlayerUnmount ==
  /\ player.kind # "none" /\ player.autoplay # "denied"
  /\ player' = [NoPlayer EXCEPT !.engines = player.engines,
                                !.raf = AudioContextCleanup(player).raf]
  /\ UNCHANGED <<hostVars, frame>>

InitPlayer ==
  /\ page = "vault"
  /\ files = <<>>
  /\ activeCategory = "All"
  /\ viewingFile = NoFile
  /\ runCode = FALSE
  /\ codeContent = NoText
  /\ url = NoUrl
  /\ effectUrl = NoUrl
  /\ runnerUrl = NoUrl
  /\ pending = NoReaders
  /\ refs = NoRefs
  /\ hostDoc = "intact"
  /\ pc = "idle"
  /\ lastEvent = Event("other", 0)
  /\ frame = NoFrame
  /\ player = NoPlayer

NextPlayer ==
  \/ \E kind \in {"audio", "video"}, allowed \in BOOLEAN : PlayerMount(kind, allowed)
  \/ \E allowed \in BOOLEAN : PlayerUrlChange(allowed)
  \/ AutoplayResolve
  \/ AutoplayReject
  \/ TogglePlay
  \/ ToggleMute
  \/ \E delta \in {Tenth, NegTenth} : AdjustVolume(delta)
  \/ FeedbackTimeout
  \/ MediaEnded
  \/ PlayerUnmount

SpecPlayer == InitPlayer /\ [][NextPlayer]_vars

\* =================================================================== claims
TypeOK ==
  /\ page \in {"home", "vault"}
  /\ viewingFile \in Handles \cup {NoFile}
  /\ runCode \in BOOLEAN
  /\ codeContent \in {NoText} \cup {FileText(f) : f \in Handles}
  /\ pc \in {"idle", "cleanup", "effect"}
  /\ hostDoc \in {"intact", "tampered", "navigated"}
  /\ refs.created <= MaxRefs

SourceViews == {s \in Surfaces : s.kind = "source"}
ExecSurfaces == {s \in Surfaces : s.kind = "exec"}
\* the surfaces that take an object URL as their source
UrlSurfaces == {s \in Surfaces : s.kind \in {"img", "video", "audio", "pdf", "exec"}}

\* C1: the text in the source view is the active file's own decoded text or
\* the loading placeholder, never the decoded text of another file.
C1_StaleDecodeDiscard ==
  \A s \in SourceViews : s.text = NoText \/ s.text = FileText(viewingFile)

\* C2: nothing the code executed in the embedded surface does changes the
\* host: the host document is the same in the run where the embedded code does
\* nothing and in every other run, i.e. it stays as the host left it.
C2_HostIsolation == hostDoc = "intact"

\* C3: every mounted surface that executes code carries exactly the grant
\* allow-scripts allow-modals allow-popups allow-forms allow-same-origin.
C3_SandboxGrant ==
  \A s \in ExecSurfaces :
    /\ s.sandbox = {"allow-scripts", "allow-modals", "allow-popups", "allow-forms",
                    "allow-same-origin"}
    /\ "allow-top-navigation" \notin s.sandbox

C3_Witness ==
  \E s \in ExecSurfaces : s.src # NoUrl /\ pc = "idle" /\ IsJs(viewingFile)

\* C4: once the viewer is closed (or the page left) and the effects have run,
\* every object URL created has been revoked exactly once: none is live, the
\* number created equals the number revoked, no revoke hit a revoked URL.
C4_NoLeak ==
  (pc = "idle" /\ viewingFile = NoFile) =>
    /\ refs.live = {}
    /\ refs.created = refs.revoked
    /\ refs.stale = 0

\* C5: at every instant at most one file-payload URL made by useObjectUrl is
\* live (created and not yet revoked).
C5_ReferenceUniqueness == Cardinality(LiveFileRefs) <= 1

C5_Witness ==
  /\ refs.revoked >= 1 /\ Cardinality(LiveFileRefs) = 1
  /\ viewingFile # NoFile /\ pc = "idle"
  /\ \E u \in LiveFileRefs : u.file = viewingFile /\ u.id >= 2

\* C6: on a file change the new file's URL is created before the old one is
\* revoked, and no URL is revoked while a mounted surface has it as its source:
\* every source of a mounted surface is live, and a step that revokes the URL
\* of the file shown before leaves a live URL of the file shown now.
C6_CreateBeforeRevoke ==
  /\ [](\A s \in UrlSurfaces : s.src # NoUrl => Live(s.src))
  /\ [][(refs'.revoked > refs.revoked /\ viewingFile' # NoFile)
          => \E u \in refs'.live : u.kind = "file" /\ u.file = viewingFile']_vars

\* C7: when the file of the viewer changes, the URL of the file before is
\* revoked before the URL of the new file is created (no file URL is live at
\* the moment one is created), and once the viewer is unmounted and its
\* cleanup has run no file URL is live.
C7_RevokeBeforeCreate ==
  /\ [][(LiveFileRefs' \ LiveFileRefs) # {} => LiveFileRefs = {}]_vars
  /\ []((pc = "idle" /\ viewingFile = NoFile) => LiveFileRefs = {})

C7_Witness ==
  /\ pc = "effect" /\ viewingFile # NoFile
  /\ refs.revoked >= 1 /\ effectUrl = NoUrl /\ url # NoUrl /\ ~Live(url)

\* C8: after navigate(next) or navigate(prev) has replaced the active file,
\* the viewer is in Source mode for the new file.
C8_ModeResetOnNavigation ==
  (lastEvent.op = "navigate" /\ pc = "cleanup") => ~runCode

\* C9: openFile from Closed enters Open(Source), whatever mode the viewer
\* mounted before was left in.
C9_OpenEntersSource ==
  lastEvent.op = "openFile" => (viewingFile # NoFile /\ ~runCode)

C9_Witness ==
  lastEvent = Event("openFile", 1) /\ viewingFile # NoFile /\ ~runCode

\* C10: navigate(next) moves from index i of the n filtered files to index
\* (i+1) mod n, navigate(prev) to (i-1) mod n, when n >= 2; with n <= 1 the
\* active file stays.
C10_NavigationWraparound ==
  [][(pc = "idle" /\ lastEvent'.op = "navigate") =>
       LET ff == FilteredFiles(files, activeCategory)
           n == Len(ff)
           i == IndexOf(ff, viewingFile)
           d == lastEvent'.arg
       IN /\ i >= 0
          /\ viewingFile' = IF n >= 2 THEN ff[((i + d + n) % n) + 1] ELSE viewingFile]_vars

C10_Witness ==
  /\ lastEvent = Event("navigate", -1) /\ pc = "cleanup"
  /\ Len(FilteredFiles(files, activeCategory)) = 3
  /\ IndexOf(FilteredFiles(files, activeCategory), viewingFile) = 2

\* ---------------------------------------------------- the type classification
\* the kinds of content view the committed render shows
ViewKinds == {s.kind : s \in Surfaces} \ {"deciphering"}

\* the category the ten-step decision order gives a file, first match wins
RenderCategory(f) ==
  IF IsVideo(f) THEN "Video"
  ELSE IF IsAudio(f) THEN "Audio"
  ELSE IF IsImage(f) THEN "Image"
  ELSE IF IsPdf(f) THEN "Pdf"
  ELSE IF IsHtml(f) THEN "MarkupDocument"
  ELSE IF IsJsx(f) THEN "RunnableScript(JSX)"
  ELSE IF IsJs(f) THEN "RunnableScript(JS)"
  ELSE IF IsCss(f) THEN "RunnableScript(CSS)"
  ELSE IF IsCode(f) THEN "PlainCode"
  ELSE "Unknown"

\* the category the declared media type alone gives
TypeCategory(type) ==
  IF StartsWith(type, "video") THEN "Video"
  ELSE IF StartsWith(type, "audio") THEN "Audio"
  ELSE IF StartsWith(type, "image") THEN "Image"
  ELSE IF type = <<"application", "pdf">> THEN "Pdf"
  ELSE IF StartsWith(type, "text") THEN "PlainCode"
  ELSE "Unknown"

\* the one content view of a category in a mode
ViewOf(category, run) ==
  CASE category = "Video" -> "video"
    [] category = "Audio" -> "audio"
    [] category = "Image" -> "img"
    [] category = "Pdf" -> "pdf"
    [] category = "PlainCode" -> IF run THEN "terminal" ELSE "source"
    [] category = "Unknown" -> "unknown"
    [] OTHER -> IF run THEN "exec" ELSE "source"

Shown == viewingFile # NoFile /\ url # NoUrl

\* C11: once the file's url is available the viewer renders exactly one kind
\* of content view, the one of the category the ten-step decision order gives
\* the file; a file with a video, audio, image or pdf type is not also
\* rendered as code.
C11_ExactlyOneView ==
  Shown => ViewKinds = {ViewOf(RenderCategory(viewingFile), runCode)}

\* C12: once the file's url is available at least one content view is
\* rendered, in Source mode and in Run mode, and a file that matches no media,
\* markup, script or code rule gets the Unknown placeholder and nothing else.
C12_ClassificationTotal ==
  Shown =>
    /\ ViewKinds # {}
    /\ RenderCategory(viewingFile) = "Unknown" => ViewKinds = {"unknown"}

C12_Witness ==
  /\ Shown /\ pc = "idle" /\ runCode
  /\ RenderCategory(viewingFile) = "Unknown"
  /\ ViewKinds = {"unknown"}

\* C13: for a file whose name has no '.', every extension test fails and the
\* category is the one the declared media type alone gives, also when the
\* whole name is an extension word such as js, css, html or py.
C13_NoExtensionByTypeAlone ==
  (viewingFile # NoFile /\ Len(FileName(viewingFile)) = 1) =>
    /\ ~CanRun(viewingFile)
    /\ ExtOf(FileName(viewingFile)) \notin CATEGORIES("Code")
    /\ RenderCategory(viewingFile) = TypeCategory(FileType(viewingFile))

\* C14: a file whose declared media type is empty is never shown as video,
\* audio, image or pdf whatever its extension, and it gets the Unknown
\* placeholder alone whenever its extension is none of html, htm, jsx, tsx,
\* js, css and none of the Code extensions.
C14_MediaByDeclaredTypeOnly ==
  (Shown /\ FileType(viewingFile) = <<>>) =>
    /\ ViewKinds \cap {"video", "audio", "img", "pdf"} = {}
    /\ RenderCategory(viewingFile) \notin {"Video", "Audio", "Image", "Pdf"}
    /\ ExtOf(FileName(viewingFile)) \notin
         ({"html", "htm", "jsx", "tsx", "js", "css"} \cup CATEGORIES("Code"))
       => ViewKinds = {"unknown"}

C14_Witness ==
  /\ Shown /\ pc = "idle"
  /\ FileType(viewingFile) = <<>>
  /\ ExtOf(FileName(viewingFile)) \in {"mov", "mp3", "jpg", "pdf"}
  /\ ViewKinds = {"unknown"}

\* C15: when a text decode of the active file fails, the source view shows the
\* loading placeholder and no file's text, whatever was decoded before.  A
\* step where a read of the active file ends and sets nothing is a step where
\* one failed, unless the text held is the active file's own.
C15_DecodeFailureShowsPlaceholder ==
  [][(/\ viewingFile # NoFile /\ viewingFile' = viewingFile
      /\ pending'[viewingFile] < pending[viewingFile]
      /\ codeContent' = codeContent
      /\ codeContent # FileText(viewingFile))
       => \A s \in SourceViews' : s.text = NoText]_vars

\* --------------------------------------------------------- the runners, run
\* the number of 'Error: ...' lines in the console region
ErrorLines(console) == Cardinality({i \in 1 .. Len(console) : console[i] = "Error"})

\* the errors the text of a loaded frame has raised so far: the statement that
\* does not parse, the statement that threw, the callbacks that ran
ErrorsRaised(fr) ==
  IF fr.phase = "blank" THEN 0
  ELSE IF ~Parses(fr.text) THEN 1
  ELSE (IF EvalText(fr.text).thrown THEN 1 ELSE 0) + (EvalText(fr.text).timers - fr.timers)

\* C16, as stated: every error the text run by the JS runner raises, whether
\* thrown during evaluation, thrown later from a callback, or a text that does
\* not parse, appends an 'Error: ...' line to the console region and does not
\* escape the runner's script.
C16_JsErrorCaptureEveryKind ==
  frame.dialect = "JS" =>
    /\ frame.uncaught = <<>>
    /\ ErrorLines(frame.console) = ErrorsRaised(frame)

\* C16, amended: an error the text throws while the runner's script evaluates
\* it appends one 'Error: ...' line, after the lines logged before it, and
\* does not escape the script; a text that does not parse and an error thrown
\* later from a callback append no line and go uncaught.
C16_JsErrorCaptureInEvaluation ==
  (frame.dialect = "JS" /\ frame.phase # "blank") =>
    /\ (Parses(frame.text) /\ EvalText(frame.text).thrown) =>
         /\ frame.console = Append(EvalText(frame.text).console, "Error")
         /\ \A i \in 1 .. Len(frame.uncaught) : frame.uncaught[i] # "evaluation"
    /\ ~Parses(frame.text) => (frame.console = <<>> /\ frame.uncaught = <<"syntax">>)
    /\ ErrorLines(frame.console) <= 1
    /\ Len(frame.uncaught) = ErrorsRaised(frame) - ErrorLines(frame.console)

C16_Witness ==
  /\ frame.dialect = "JS" /\ frame.phase = "evaluated"
  /\ frame.text = <<"log", "later", "throw">>
  /\ frame.console = <<"log", "Error">>
  /\ frame.uncaught = <<"callback">>

\* C17: after the JSX runner has evaluated the user code, App is handed to
\* root.render exactly when the code binds App at its top level (a function
\* declaration, a const, or either behind export default); when it binds none
\* the root element stays empty and no error block is appended.
C17_JsxMountHeuristic ==
  (frame.dialect = "JSX" /\ frame.phase = "evaluated") =>
    LET bindsApp == \E i \in 1 .. Len(frame.text) :
                      frame.text[i] \in {"App", "constApp", "exportApp"}
    IN /\ frame.mounted <=> bindsApp
       /\ ~bindsApp => (~frame.mounted /\ frame.blocks = <<>>)

C17_Witness ==
  /\ frame.dialect = "JSX" /\ frame.phase = "evaluated"
  /\ frame.text = <<"other", "exportApp">>
  /\ frame.mounted /\ frame.blocks = <<>>

\* ------------------------------------------------------------- the players
\* C18: after the platform has rejected the play() the auto-play effect
\* issued, isPlaying is false and the player shows no error, also when the
\* media shown before was playing when the url changed.
C18_AutoplayRejectionLeavesPaused ==
  player.autoplay = "rejected" =>
    /\ player.paused
    /\ ~player.isPlaying
    /\ "error" \notin PlayerView(player)

\* a file that is code and has none of the extensions that run
PlainCodeFile(f) ==
  IsCode(f) /\ ExtOf(FileName(f)) \notin {"html", "htm", "jsx", "tsx", "js", "css"}

\* C20: while a file that is code but none of html, htm, jsx, tsx, js, css is
\* shown in Run mode, the terminal simulation is rendered and no execution
\* iframe is; and no runner document is ever created for such a file.
C20_PlainCodeNeverExecuted ==
  /\ (Shown /\ PlainCodeFile(viewingFile) /\ runCode) =>
       ("terminal" \in ViewKinds /\ "exec" \notin ViewKinds)
  /\ \A u \in refs.live : u.kind = "runner" => ~PlainCodeFile(u.file)
  /\ (viewingFile # NoFile /\ PlainCodeFile(viewingFile)) => runnerUrl = NoUrl

C20_Witness ==
  /\ Shown /\ pc = "idle" /\ runCode
  /\ RenderCategory(viewingFile) = "PlainCode"
  /\ codeContent = FileText(viewingFile)
  /\ ViewKinds = {"terminal"}
  /\ LiveRunnerRefs # {}

\* C21: in Source mode and with the viewer closed no execution iframe is
\* mounted; one is mounted only while the mode is Run and the file is
\* runnable, and the step from Run to Source takes it out of the tree.
C21_NoBackgroundSurface ==
  /\ [](viewingFile = NoFile => Surfaces = {})
  /\ [](ExecSurfaces # {} => (viewingFile # NoFile /\ runCode /\ CanRun(viewingFile)))
  /\ [][(runCode /\ ~runCode') => ExecSurfaces' = {}]_vars

C21_Witness ==
  /\ Shown /\ pc = "idle" /\ ~runCode
  /\ CanRun(viewingFile) /\ runnerUrl # NoUrl
  /\ ExecSurfaces = {}

\* C22: a runner document and its object URL are created only in a step that
\* leaves the viewer in Run mode; opening a file, a decode completing,
\* navigating and toggling back to Source create none.
C22_RunnerOnRequestOnly ==
  [][(LiveRunnerRefs' \ LiveRunnerRefs) # {} => runCode']_vars

\* b - a is one 0.1 step, up to the rounding of the double arithmetic (2^-50)
IsTenthStep(a, b) ==
  /\ LessMagnitude(a, b)
  /\ LET d == SubMagnitude(b, a) IN
       d.hi = Tenth.hi /\ d.lo - Tenth.lo \in -64 .. 64

\* C23: the volume stays within 0 and 1, and a volume-up or volume-down input
\* changes it by one 0.1 step, except that up at 1 and down at 0 leave it
\* as it is.
C23_VolumeBounds ==
  /\ [](~NumberLess(player.volume, Zero) /\ ~NumberLess(One, player.volume))
  /\ [][/\ player'.input.key = "up" =>
             IF player.volume = One THEN player'.volume = One
                                    ELSE IsTenthStep(player.volume, player'.volume)
        /\ player'.input.key = "down" =>
             IF player.volume = Zero THEN player'.volume = Zero
                                     ELSE IsTenthStep(player'.volume, player.volume)]_vars

\* C24: a volume-up input handled while muted leaves the player un-muted; a
\* volume input that leaves the volume at 0 does not change the mute state;
\* the mute key flips the mute state and leaves the volume as it is.
C24_AutoUnmute ==
  /\ []((player.input.key = "up" /\ player.input.muted) => ~player.isMuted)
  /\ []((player.input.key \in {"up", "down"} /\ player.volume = Zero)
          => player.isMuted = player.input.muted)
  /\ []((player.input.key \in {"up", "down"} /\ ~player.input.muted) => ~player.isMuted)
  /\ [](player.input.key = "mute" => player.isMuted = ~player.input.muted)
  /\ [][player'.input.key = "mute" => player'.volume = player.volume]_vars

\* a volume-up found the player muted and left it un-muted, showing the
\* volume overlay
C24_Witness ==
  /\ player.input = [key |-> "up", muted |-> TRUE]
  /\ ~player.isMuted
  /\ player.feedback = [visible |-> TRUE, type |-> "volume"]

\* a volume-down found the player muted, took the volume to 0 and left the
\* player muted
C24_WitnessAtZero ==
  /\ player.input = [key |-> "down", muted |-> TRUE]
  /\ player.volume = Zero
  /\ player.isMuted

\* C25: the feedback overlay is visible exactly while the hide interval of the
\* most recent volume or mute change is running: a second change within the
\* interval restarts it.  The timers have one delay and fire in the order they
\* were started, so the interval of the latest change is running exactly
\* while any timer is waiting.
C25_FeedbackTimer ==
  player.kind # "none" => (player.feedback.visible <=> player.timers > 0)

\* C26: at most one redraw callback of the visualizer is scheduled at any
\* time, and none is scheduled while no audio player is mounted or while its
\* playback is stopped (a play() still loading its source aside).
C26_VisualizerRedrawLoop ==
  /\ player.raf <= 1
  /\ player.kind # "audio" => player.raf = 0
  /\ (player.paused /\ player.autoplay # "pending") => player.raf = 0

\* C27: the AudioContext and its analyser are constructed at most once in a
\* session, whatever files are viewed in between.
C27_SingleAudioEngine ==
  player.engines <= 1

\* C28: while the viewer is open the collection is not empty and the file
\* viewed is one of the files the active category lists; a switch of
\* category leaves the viewer closed.
C28_ViewerMembership ==
  /\ [](viewingFile # NoFile =>
          /\ Len(files) > 0
          /\ IndexOf(FilteredFiles(files, activeCategory), viewingFile) >= 0)
  /\ [][activeCategory' # activeCategory => viewingFile' = NoFile]_vars

\* the viewer shows a file of a category that does not list every file held
C28_Witness ==
  /\ Shown /\ pc = "idle"
  /\ activeCategory # "All"
  /\ Len(FilteredFiles(files, activeCategory)) < Len(files)
  /\ IndexOf(FilteredFiles(files, activeCategory), viewingFile) >= 0

\* C29: in every committed render the object URL handed to a mounted img,
\* video, audio, PDF iframe or markup execution iframe was created from the
\* file now viewed, never from the file viewed before.
C29_SurfaceSourceMatchesActiveFile ==
  \A s \in UrlSurfaces : s.src.kind = "file" => s.src.file = viewingFile

\* the runner template getRunnerSrc chooses for a file
DialectOf(f) ==
  IF IsJs(f) THEN "JS" ELSE IF IsCss(f) THEN "CSS" ELSE IF IsJsx(f) THEN "JSX" ELSE "none"

\* C30: a mounted execution surface that shows a synthesized runner embeds the
\* decoded text of the file now viewed, in that file's dialect, never text
\* decoded from a file viewed before.
C30_RunnerTextMatchesActiveFile ==
  \A s \in ExecSurfaces :
    s.src.kind = "runner" =>
      /\ s.src.text = FileText(viewingFile)
      /\ s.src.file = viewingFile
      /\ s.src.dialect = DialectOf(viewingFile)
====
